---- MODULE Spec2Model ----
(***************************************************************************)
(* Model of python-athena.py: QueryExecution (wait / get_result) and       *)
(* AthenaClient (execute / execute_sync / add_partition) layered on the    *)
(* remote Athena service, whose answers are nondeterministic.              *)
(***************************************************************************)
EXTENDS Integers, Sequences, FiniteSets, TLC

\* ------------------------------------------------------------------ bounds
MaxTimeout == 3
MaxHandles == 2
MaxSharedTimeout == 2

\* ------------------------------------------------------- program constants
TABLE_NAME == "athena_table_name"
DefaultTimeout == 20

\* ------------------------------------------------------------ environment
Threads == {1, 2}
SeqCallers == {1}

Ids == {"q-1", "q-2"}
InProgressStates == {"QUEUED", "RUNNING"}
TerminalStates == {"SUCCEEDED", "FAILED", "CANCELLED"}
States == InProgressStates \cup TerminalStates
Reasons == {"SYNTAX_ERROR", "User cancelled"}
\* a Status dict of get_query_execution: the StateChangeReason key is optional
Statuses == [State : States] \cup [State : States, StateChangeReason : Reasons]
NoStatus == [State |-> "unbound"]

\* every timeout a caller passes, and the default of wait / get_result / execute_sync
ExplicitTimeouts == (-1)..MaxTimeout
Timeouts == ExplicitTimeouts \cup {DefaultTimeout}
SharedTimeouts == 0..MaxSharedTimeout
Queries == {"select 1", "slect"}

Configs == { [db_name |-> "db1", s3_bucket |-> "s3://data1", output_location |-> "s3://out1"],
             [db_name |-> "db2", s3_bucket |-> "s3://data2", output_location |-> "s3://out2"] }

Cell(v) == [VarCharValue |-> v]
\* a Datum of a NULL value: the VarCharValue key is absent
NullCell == [Null |-> TRUE]
Response(rows) == [ResultSet |-> [Rows |-> [r \in 1..Len(rows) |-> [Data |-> rows[r]]]]]
CountCells == {"42", "0", "-3", " 7", "1_0", "abc", "", "4.2"}
Responses == { Response(<< <<Cell("cnt")>>, <<Cell(c)>> >>) : c \in CountCells }
             \cup { Response(<< <<Cell("a"), Cell("b")>> >>),
                    Response(<< <<Cell("a"), Cell("b")>>, <<Cell("1"), Cell("x")>>, <<Cell("2"), Cell("y")>> >>),
                    Response(<< <<Cell("a"), Cell("b")>>, <<Cell("1"), NullCell>> >>),
                    Response(<< >>) }
NoResponse == [ResultSet |-> [Rows |-> << >>]]
NoRequest == [QueryString |-> "", Database |-> "", OutputLocation |-> ""]

Dates == { [year |-> 2024, month |-> 1, day |-> 1], [year |-> 987, month |-> 12, day |-> 25] }
NoDate == [year |-> 0, month |-> 0, day |-> 0]
Types == {"daily", "a, b"}
Directories == {"2024/01/01", "x"}

\* ------------------------------------------------------------------ state
\* client:  the AthenaClient's configuration
\* handles: the QueryExecution objects created so far
\* frame:   each caller's current (or last finished) operation
\* issued:  the (Database, OutputLocation) pairs the service has been sent
\* succeeded: the execution ids for which a status call has answered SUCCEEDED
VARIABLES client, handles, frame, issued, succeeded
vars == <<client, handles, frame, issued, succeeded>>

\* ---------------------------------------------------------- pure helpers
Digit(d) == CASE d = 0 -> "0" [] d = 1 -> "1" [] d = 2 -> "2" [] d = 3 -> "3" [] d = 4 -> "4"
              [] d = 5 -> "5" [] d = 6 -> "6" [] d = 7 -> "7" [] d = 8 -> "8" [] d = 9 -> "9"

RECURSIVE NatStr(_)
NatStr(n) == IF n < 10 THEN Digit(n) ELSE NatStr(n \div 10) \o Digit(n % 10)

\* '{}'.format(n) for an int
IntStr(n) == IF n < 0 THEN "-" \o NatStr(0 - n) ELSE NatStr(n)

RECURSIVE ZeroPad(_, _)
ZeroPad(s, width) == IF width <= 0 THEN s ELSE ZeroPad("0" \o s, width - 1)

\* '{}'.format(d) for a datetime.date: ISO yyyy-mm-dd
DateStr(d) == ZeroPad(NatStr(d.year), IF d.year < 10 THEN 3 ELSE IF d.year < 100 THEN 2 ELSE IF d.year < 1000 THEN 1 ELSE 0)
              \o "-" \o ZeroPad(NatStr(d.month), IF d.month < 10 THEN 1 ELSE 0)
              \o "-" \o ZeroPad(NatStr(d.day), IF d.day < 10 THEN 1 ELSE 0)

\* Partition.__init__: the ordered dict {'created_at': ..., 'type': ...}
Partition_TypeFirst(created_at, type) == << <<"type", type>>, <<"created_at", DateStr(created_at)>> >>
Partition(created_at, type) == << <<"created_at", DateStr(created_at)>>, <<"type", type>> >>

RECURSIVE Join(_, _)
Join(parts, glue) == IF Len(parts) = 0 THEN ""
                     ELSE IF Len(parts) = 1 THEN parts[1]
                     ELSE parts[1] \o glue \o Join(Tail(parts), glue)

\* Partition.implode('{}="{}"', glue)
implode(partitions, glue) ==
    Join([n \in 1..Len(partitions) |-> partitions[n][1] \o "=\"" \o partitions[n][2] \o "\""], glue)

query_adding_partition_to_athena(partitions, s3_bucket, directory) ==
    "alter table " \o TABLE_NAME \o " add partition (" \o implode(partitions, ", ")
        \o ") location \"" \o s3_bucket \o "/" \o directory \o "\";"

\* ---- int(s) for a str: surrounding whitespace, a sign, digits with single
\* underscores between them
IsSpace(c) == c \in {" ", "\t", "\n"}
IsDigit(c) == c \in {"0", "1", "2", "3", "4", "5", "6", "7", "8", "9"}
DigitVal(c) == CASE c = "0" -> 0 [] c = "1" -> 1 [] c = "2" -> 2 [] c = "3" -> 3 [] c = "4" -> 4
                 [] c = "5" -> 5 [] c = "6" -> 6 [] c = "7" -> 7 [] c = "8" -> 8 [] c = "9" -> 9
Char(s, k) == SubSeq(s, k, k)
Rest(s) == IF Len(s) <= 1 THEN "" ELSE SubSeq(s, 2, Len(s))
Front(s) == IF Len(s) <= 1 THEN "" ELSE SubSeq(s, 1, Len(s) - 1)

RECURSIVE LStrip(_)
LStrip(s) == IF Len(s) > 0 /\ IsSpace(Char(s, 1)) THEN LStrip(Rest(s)) ELSE s
RECURSIVE RStrip(_)
RStrip(s) == IF Len(s) > 0 /\ IsSpace(Char(s, Len(s))) THEN RStrip(Front(s)) ELSE s

Unsigned(s) == LET u == RStrip(LStrip(s))
               IN IF Len(u) > 0 /\ Char(u, 1) \in {"+", "-"} THEN Rest(u) ELSE u
IsNegative(s) == LET u == LStrip(s) IN Len(u) > 0 /\ Char(u, 1) = "-"

\* does int(s) accept s
IsIntLiteral(s) ==
    LET b == Unsigned(s)
    IN /\ Len(b) > 0
       /\ \A k \in 1..Len(b) :
             \/ IsDigit(Char(b, k))
             \/ /\ Char(b, k) = "_" /\ k > 1 /\ k < Len(b)
                /\ IsDigit(Char(b, k - 1)) /\ IsDigit(Char(b, k + 1))

RECURSIVE DigitsValue(_, _)
DigitsValue(b, acc) == IF Len(b) = 0 THEN acc
                       ELSE DigitsValue(Rest(b), IF Char(b, 1) = "_" THEN acc ELSE acc * 10 + DigitVal(Char(b, 1)))

\* the value of int(s) when int accepts s
IntValue(s) == IF IsNegative(s) THEN 0 - DigitsValue(Unsigned(s), 0) ELSE DigitsValue(Unsigned(s), 0)

\* ---- AthenaClient._execute_select on the response of get_result
\* [[column_value['VarCharValue'] for column_value in row['Data']] for row in rows]
CellValues(rows) == [r \in 1..Len(rows) |-> [c \in 1..Len(rows[r].Data) |-> rows[r].Data[c].VarCharValue]]
HasNullCell(rows) == \E r \in 1..Len(rows) : \E c \in 1..Len(rows[r].Data) :
                        "VarCharValue" \notin DOMAIN rows[r].Data[c]

\* result[1:]
DataRows_WithHeader(result) == result
DataRows(result) == Tail(result)

\* rows[0][0] of get_count
CountCell_Header(column_names, rows) == column_names[1]
CountCell(column_names, rows) == rows[1][1]

\* dict(zip(keys, vals)): pairs up to the shorter length, a later pair wins
DictZip_Swapped(keys, vals) ==
    LET n == IF Len(keys) < Len(vals) THEN Len(keys) ELSE Len(vals)
    IN [k \in {vals[i] : i \in 1..n} |->
           keys[CHOOSE i \in 1..n : vals[i] = k /\ \A j \in 1..n : vals[j] = k => j <= i]]
DictZip(keys, vals) ==
    LET n == IF Len(keys) < Len(vals) THEN Len(keys) ELSE Len(vals)
    IN [k \in {keys[i] : i \in 1..n} |->
           vals[CHOOSE i \in 1..n : keys[i] = k /\ \A j \in 1..n : keys[j] = k => j <= i]]

\* status.get('StateChangeReason', 'No reason is given.')
StatusReason_IgnoresService(status) == "No reason is given."
StatusReason(status) ==
    IF "StateChangeReason" \in DOMAIN status THEN status.StateChangeReason ELSE "No reason is given."

FailedMessage(id, reason) == "Athena execution " \o id \o " is failed. " \o reason
CanceledMessage_AsFailed(id, reason) == "Athena execution " \o id \o " is failed. " \o reason
CanceledMessage(id, reason) == "Athena execution " \o id \o " is canceled. " \o reason
TimeoutMessage(id, timeout) ==
    "Athena execution " \o id \o " is not processed in " \o IntStr(timeout) \o " seconds."

\* --------------------------------------------------------------- frames
\* One caller's activation: the operation it called (op), where it is (pc),
\* the locals of wait (timeout, i, status), what it returned or raised, and
\* the remote calls and sleeps it has made since the operation was called.
\* Of the status answers of this wait call the frame remembers how many
\* in-progress answers came before the first terminal one (lead) and that
\* first terminal answer (firstTerminal).
IdleFrame == [op |-> "none", pc |-> "idle", h |-> 0, query |-> "", timeout |-> 0, i |-> 0,
              status |-> NoStatus, flagAtEntry |-> FALSE, lead |-> 0, firstTerminal |-> NoStatus,
              res |-> "none", exc |-> "", retH |-> 0, retR |-> NoResponse,
              sent |-> NoRequest, gotId |-> "", askedId |-> "", fetchId |-> "", resp |-> NoResponse,
              nStart |-> 0, nStatus |-> 0, nSleep |-> 0, nResults |-> 0,
              created_at |-> NoDate, type |-> "", directory |-> "",
              excType |-> "", retCols |-> << >>, retRows |-> << >>, retInt |-> 0, retMaps |-> << >>,
              retry |-> FALSE, prevExc |-> ""]

Init == /\ client \in Configs
        /\ handles = << >>
        /\ frame = [t \in Threads |-> IdleFrame]
        /\ issued = {}
        /\ succeeded = {}

\* a raise anywhere below the caller's operation: nothing catches it
Raise_Swallowed(f, msg) == IF f.op = "get_result" THEN [f EXCEPT !.pc = "fetch"]
                           ELSE [f EXCEPT !.pc = "idle", !.res = "raise", !.excType = "Exception", !.exc = msg]
Raise_Resubmits(f, msg) == IF f.op = "execute_sync" /\ f.nStart < 2 THEN [f EXCEPT !.pc = "start"]
                           ELSE [f EXCEPT !.pc = "idle", !.res = "raise", !.excType = "Exception", !.exc = msg]
Raise(f, msg) == [f EXCEPT !.pc = "idle", !.res = "raise", !.excType = "Exception", !.exc = msg]

\* an error of a builtin type raised by an index, a key lookup or int()
RaiseBuiltin(f, type, msg) == [f EXCEPT !.pc = "idle", !.res = "raise", !.excType = type, !.exc = msg]

\* the operations that run a select: execute(query).get_result() and extraction
SelectOps == {"_execute_select", "get_count", "get_some"}

\* wait returns None to the operation that called it
WaitReturn(f) == IF f.op \in {"get_result"} \cup SelectOps
                 THEN [f EXCEPT !.pc = "fetch"]
                 ELSE [f EXCEPT !.pc = "idle", !.res = "return"]

\* ---------------------------------------------------- QueryExecution.wait
\* `if self.waited:` at the top of wait
AlreadyWaited_Never(handle) == FALSE
AlreadyWaited(handle) == handle.waited

\* `for i in range(timeout)`: is there an iteration i
InRange_OneMore(i, timeout) == i <= timeout
InRange_AtLeastOnce(i, timeout) == i = 0 \/ i < timeout
InRange(i, timeout) == i < timeout

\* the handles after one pass through the if / elif chain on state:
\* `self.waited = True` in the SUCCEEDED branch, no write in any other
SetWaited_Forgotten(hs, h, state) == hs
SetWaited_AnyTerminal(hs, h, state) ==
    IF state \in TerminalStates THEN [hs EXCEPT ![h].waited = TRUE] ELSE hs
SetWaited_Assigned(hs, h, state) == [hs EXCEPT ![h].waited = (state = "SUCCEEDED")]
SetWaited(hs, h, state) == IF state = "SUCCEEDED" THEN [hs EXCEPT ![h].waited = TRUE] ELSE hs

\* `if i != timeout - 1:` guarding sleep(1)
ShouldSleep_Always(i, timeout) == TRUE
ShouldSleep(i, timeout) == i # timeout - 1

CallWait(t, h, timeout) ==
    /\ frame[t].pc = "idle"
    /\ h \in 1..Len(handles)
    /\ frame' = [frame EXCEPT ![t] = [IdleFrame EXCEPT !.op = "wait", !.pc = "wait", !.h = h, !.timeout = timeout]]
    /\ UNCHANGED <<client, handles, issued, succeeded>>

\* the caller whose wait on a handle has just raised calls wait on it again;
\* the frame keeps the earlier error (prevExc) for comparison
CallWaitAgain(t, timeout) ==
    /\ frame[t].pc = "idle"
    /\ frame[t].op \in {"wait", "get_result", "execute_sync"}
    /\ frame[t].res = "raise"
    /\ frame' = [frame EXCEPT ![t] = [IdleFrame EXCEPT !.op = "wait", !.pc = "wait", !.h = frame[t].h,
                                                       !.timeout = timeout,
                                                       !.retry = TRUE, !.prevExc = frame[t].exc]]
    /\ UNCHANGED <<client, handles, issued, succeeded>>

\* if self.waited: return
WaitEnter(t) ==
    /\ frame[t].pc = "wait"
    /\ LET f == [frame[t] EXCEPT !.flagAtEntry = handles[frame[t].h].waited]
       IN frame' = [frame EXCEPT ![t] = IF AlreadyWaited(handles[f.h]) THEN WaitReturn(f)
                                        ELSE [f EXCEPT !.pc = "loop", !.i = 0]]
    /\ UNCHANGED <<client, handles, issued, succeeded>>

\* for i in range(timeout): status = get_query_execution(...)['QueryExecution']['Status']
\* and, once the range is exhausted, the raise after the loop
WaitPoll(t) ==
    /\ frame[t].pc = "loop"
    /\ LET f == frame[t]
           id == handles[f.h].query_execution_id
       IN IF InRange(f.i, f.timeout)
          THEN \E status \in Statuses :
                  /\ frame' = [frame EXCEPT ![t] =
                      [f EXCEPT !.pc = "classify", !.status = status, !.askedId = id,
                                !.nStatus = f.nStatus + 1,
                                !.lead = IF f.firstTerminal = NoStatus /\ status.State \notin TerminalStates
                                         THEN f.lead + 1 ELSE f.lead,
                                !.firstTerminal = IF f.firstTerminal = NoStatus /\ status.State \in TerminalStates
                                                  THEN status ELSE f.firstTerminal]]
                  /\ succeeded' = IF status.State = "SUCCEEDED" THEN succeeded \cup {id} ELSE succeeded
          ELSE /\ frame' = [frame EXCEPT ![t] = Raise(f, TimeoutMessage(id, f.timeout))]
               /\ UNCHANGED succeeded
    /\ UNCHANGED <<client, handles, issued>>

\* the if / elif chain on state, and the `if i != timeout - 1` test
WaitClassify(t) ==
    /\ frame[t].pc = "classify"
    /\ LET f == frame[t]
           id == handles[f.h].query_execution_id
           state == f.status.State
           reason == StatusReason(f.status)
       IN /\ handles' = SetWaited(handles, f.h, state)
          /\ frame' = [frame EXCEPT ![t] =
                IF state = "FAILED" THEN Raise(f, FailedMessage(id, reason))
                ELSE IF state = "CANCELLED" THEN Raise(f, CanceledMessage(id, reason))
                ELSE IF state = "SUCCEEDED" THEN WaitReturn(f)
                ELSE IF ShouldSleep(f.i, f.timeout) THEN [f EXCEPT !.pc = "sleep"]
                ELSE [f EXCEPT !.pc = "loop", !.i = f.i + 1]]
    /\ UNCHANGED <<client, issued, succeeded>>

\* sleep(1), then the next iteration
WaitSleep(t) ==
    /\ frame[t].pc = "sleep"
    /\ frame' = [frame EXCEPT ![t] = [frame[t] EXCEPT !.pc = "loop", !.i = frame[t].i + 1,
                                                      !.nSleep = frame[t].nSleep + 1]]
    /\ UNCHANGED <<client, handles, issued, succeeded>>

\* ---------------------------------------------- QueryExecution.get_result
CallGetResult(t, h, timeout) ==
    /\ frame[t].pc = "idle"
    /\ h \in 1..Len(handles)
    /\ frame' = [frame EXCEPT ![t] = [IdleFrame EXCEPT !.op = "get_result", !.pc = "wait", !.h = h, !.timeout = timeout]]
    /\ UNCHANGED <<client, handles, issued, succeeded>>

\* what _execute_select, get_count and get_some do with get_result's response
SelectFinish(f, response) ==
    LET rows == response.ResultSet.Rows
    IN IF HasNullCell(rows) THEN RaiseBuiltin(f, "KeyError", "'VarCharValue'")
       ELSE IF Len(rows) = 0 THEN RaiseBuiltin(f, "IndexError", "list index out of range")
       ELSE LET result == CellValues(rows)
                column_names == result[1]
                data == DataRows(result)
            IN IF f.op = "_execute_select"
               THEN [f EXCEPT !.pc = "idle", !.res = "return", !.retCols = column_names, !.retRows = data]
               ELSE IF f.op = "get_some"
               THEN [f EXCEPT !.pc = "idle", !.res = "return",
                              !.retMaps = [n \in 1..Len(data) |-> DictZip(column_names, data[n])]]
               ELSE IF Len(data) = 0 \/ Len(data[1]) = 0
               THEN RaiseBuiltin(f, "IndexError", "list index out of range")
               ELSE LET cell == CountCell(column_names, data)
                    IN IF IsIntLiteral(cell)
                       THEN [f EXCEPT !.pc = "idle", !.res = "return", !.retInt = IntValue(cell)]
                       ELSE RaiseBuiltin(f, "ValueError",
                                         "invalid literal for int() with base 10: '" \o cell \o "'")

\* return self.client.get_query_results(QueryExecutionId=self.query_execution_id)
GetResultFetch(t) ==
    /\ frame[t].pc = "fetch"
    /\ \E response \in Responses :
          LET f == [frame[t] EXCEPT !.resp = response,
                                    !.fetchId = handles[frame[t].h].query_execution_id,
                                    !.nResults = frame[t].nResults + 1]
          IN frame' = [frame EXCEPT ![t] = IF f.op = "get_result"
                                           THEN [f EXCEPT !.pc = "idle", !.res = "return", !.retR = response]
                                           ELSE SelectFinish(f, response)]
    /\ UNCHANGED <<client, handles, issued, succeeded>>

\* --------------------------------------------------- AthenaClient.execute
CallExecute(t, query) ==
    /\ frame[t].pc = "idle"
    /\ Len(handles) < MaxHandles
    /\ frame' = [frame EXCEPT ![t] = [IdleFrame EXCEPT !.op = "execute", !.pc = "start", !.query = query]]
    /\ UNCHANGED <<client, handles, issued, succeeded>>

CallExecuteSync(t, query, timeout) ==
    /\ frame[t].pc = "idle"
    /\ Len(handles) < MaxHandles
    /\ frame' = [frame EXCEPT ![t] = [IdleFrame EXCEPT !.op = "execute_sync", !.pc = "start", !.query = query,
                                                       !.timeout = timeout]]
    /\ UNCHANGED <<client, handles, issued, succeeded>>

CallAddPartition(t, created_at, type, directory) ==
    /\ frame[t].pc = "idle"
    /\ Len(handles) < MaxHandles
    /\ frame' = [frame EXCEPT ![t] = [IdleFrame EXCEPT !.op = "add_partition", !.pc = "start",
                    !.created_at = created_at, !.type = type, !.directory = directory,
                    !.query = query_adding_partition_to_athena(Partition(created_at, type), client.s3_bucket, directory)]]
    /\ UNCHANGED <<client, handles, issued, succeeded>>

\* execute_sync goes on to wait on the handle execute returned; execute and
\* add_partition return it
WaitsAfterSubmit_Always(op) == TRUE
WaitsAfterSubmit(op) == op \in {"execute_sync"} \cup SelectOps

\* _execute_select(query), get_count() and get_some(): the query each runs,
\* waited for with get_result's default timeout
CallExecuteSelect(t, query) ==
    /\ frame[t].pc = "idle"
    /\ Len(handles) < MaxHandles
    /\ frame' = [frame EXCEPT ![t] = [IdleFrame EXCEPT !.op = "_execute_select", !.pc = "start", !.query = query,
                                                       !.timeout = DefaultTimeout]]
    /\ UNCHANGED <<client, handles, issued, succeeded>>

CallGetCount(t) ==
    /\ frame[t].pc = "idle"
    /\ Len(handles) < MaxHandles
    /\ frame' = [frame EXCEPT ![t] = [IdleFrame EXCEPT !.op = "get_count", !.pc = "start",
                                                       !.query = "select count(*) from " \o TABLE_NAME,
                                                       !.timeout = DefaultTimeout]]
    /\ UNCHANGED <<client, handles, issued, succeeded>>

CallGetSome(t) ==
    /\ frame[t].pc = "idle"
    /\ Len(handles) < MaxHandles
    /\ frame' = [frame EXCEPT ![t] = [IdleFrame EXCEPT !.op = "get_some", !.pc = "start",
                                                       !.query = "select * from " \o TABLE_NAME \o " limit 10",
                                                       !.timeout = DefaultTimeout]]
    /\ UNCHANGED <<client, handles, issued, succeeded>>

\* the request execute builds for start_query_execution
StartRequest_BucketAsOutput(c, query) ==
    [QueryString |-> query, Database |-> c.db_name, OutputLocation |-> c.s3_bucket]
StartRequest(c, query) ==
    [QueryString |-> query, Database |-> c.db_name, OutputLocation |-> c.output_location]

\* QueryExecution.__init__
QueryExecution_BornWaited(query_execution_id) == [query_execution_id |-> query_execution_id, waited |-> TRUE]
QueryExecution(query_execution_id) == [query_execution_id |-> query_execution_id, waited |-> FALSE]

\* start_query_execution(...)['QueryExecutionId'] and QueryExecution(client, id)
Execute(t) ==
    /\ frame[t].pc = "start"
    /\ \E id \in Ids :
          LET f == [frame[t] EXCEPT !.sent = StartRequest(client, frame[t].query), !.gotId = id,
                                    !.nStart = frame[t].nStart + 1,
                                    !.h = Len(handles) + 1]
          IN /\ handles' = Append(handles, QueryExecution(id))
             /\ issued' = issued \cup {[Database |-> f.sent.Database, OutputLocation |-> f.sent.OutputLocation]}
             /\ frame' = [frame EXCEPT ![t] = IF WaitsAfterSubmit(f.op)
                                              THEN [f EXCEPT !.pc = "wait"]
                                              ELSE [f EXCEPT !.pc = "idle", !.res = "return", !.retH = f.h]]
    /\ UNCHANGED <<client, succeeded>>

\* ------------------------------------------------------------------ system
Next == \E t \in SeqCallers :
           \/ \E h \in 1..MaxHandles, timeout \in Timeouts : CallWait(t, h, timeout)
           \/ WaitEnter(t)
           \/ WaitPoll(t)
           \/ WaitClassify(t)
           \/ WaitSleep(t)
           \/ \E h \in 1..MaxHandles, timeout \in ExplicitTimeouts : CallGetResult(t, h, timeout)
           \/ GetResultFetch(t)
           \/ \E query \in Queries : CallExecute(t, query)
           \/ \E query \in Queries, timeout \in ExplicitTimeouts : CallExecuteSync(t, query, timeout)
           \/ \E created_at \in Dates, type \in Types, directory \in Directories :
                 CallAddPartition(t, created_at, type, directory)
           \/ Execute(t)

Spec == Init /\ [][Next]_vars

\* One caller running selects through the client
NextSelect == \E t \in SeqCallers :
                 \/ \E query \in Queries : CallExecuteSelect(t, query)
                 \/ CallGetCount(t)
                 \/ CallGetSome(t)
                 \/ Execute(t)
                 \/ WaitEnter(t)
                 \/ WaitPoll(t)
                 \/ WaitClassify(t)
                 \/ WaitSleep(t)
                 \/ GetResultFetch(t)

SpecSelect == Init /\ [][NextSelect]_vars

\* One caller waiting on one handle again and again
NextRetry == \E t \in SeqCallers :
                \/ \E timeout \in Timeouts : CallWait(t, 1, timeout)
                \/ \E timeout \in Timeouts : CallWaitAgain(t, timeout)
                \/ WaitEnter(t)
                \/ WaitPoll(t)
                \/ WaitClassify(t)
                \/ WaitSleep(t)

\* Two callers sharing the one handle an earlier execute call returned
InitShared == /\ client \in {c \in Configs : c.db_name = "db1"}
              /\ \E id \in Ids : handles = << QueryExecution(id) >>
              /\ frame = [t \in Threads |-> IdleFrame]
              /\ issued = {[Database |-> client.db_name, OutputLocation |-> client.output_location]}
              /\ succeeded = {}

NextShared == \E t \in Threads :
                 \/ \E timeout \in SharedTimeouts : CallWait(t, 1, timeout)
                 \/ WaitEnter(t)
                 \/ WaitPoll(t)
                 \/ WaitClassify(t)
                 \/ WaitSleep(t)
                 \/ \E timeout \in SharedTimeouts : CallGetResult(t, 1, timeout)
                 \/ GetResultFetch(t)

SpecShared == InitShared /\ [][NextShared]_vars

SpecRetry == InitShared /\ [][NextRetry]_vars

\* a caller inside wait keeps running, and every status call returns
WaitStep(t) == WaitEnter(t) \/ WaitPoll(t) \/ WaitClassify(t) \/ WaitSleep(t)
SpecRetryFair == SpecRetry /\ \A t \in SeqCallers : WF_vars(WaitStep(t))

TypeOK == /\ client \in Configs
          /\ Len(handles) <= MaxHandles
          /\ \A n \in 1..Len(handles) : handles[n].query_execution_id \in Ids /\ handles[n].waited \in BOOLEAN
          /\ \A t \in Threads : frame[t].pc \in {"idle", "wait", "loop", "classify", "sleep", "fetch", "start"}

\* ------------------------------------------------------- claim vocabulary
WaitOps == {"wait", "get_result", "execute_sync"}

\* the wait call made by f's operation has returned None
WaitSucceeded(f) == \/ f.op \in {"wait", "execute_sync"} /\ f.pc = "idle" /\ f.res = "return"
                    \/ f.op = "get_result" /\ (f.pc = "fetch" \/ (f.pc = "idle" /\ f.res = "return"))

\* f's operation has ended by raising msg
Raised(f, msg) == f.pc = "idle" /\ f.res = "raise" /\ f.exc = msg

\* the reason an error made from this status answer has to carry
ExpectedReason(status) ==
    IF \E r \in Reasons : status = [State |-> status.State, StateChangeReason |-> r]
    THEN status.StateChangeReason
    ELSE "No reason is given."

FailedText(f, status) == "Athena execution " \o handles[f.h].query_execution_id
                             \o " is failed. " \o ExpectedReason(status)
CanceledText(f, status) == "Athena execution " \o handles[f.h].query_execution_id
                               \o " is canceled. " \o ExpectedReason(status)

TimedOutText(f) == "Athena execution " \o handles[f.h].query_execution_id
                       \o " is not processed in " \o IntStr(f.timeout) \o " seconds."

\* ---------------------------------------------------------------- claims

\* C1: when wait(timeout), timeout >= 1, is called on a handle whose flag is
\* not set and the service answers in-progress on status calls 1..k-1 and
\* SUCCEEDED on call k <= timeout, wait returns success after exactly k
\* status calls and k-1 sleeps, and the handle's waited flag is set.
C1_SucceededOnPollK ==
    \A t \in Threads :
        LET f == frame[t]
            k == f.lead + 1
        IN (/\ f.op \in WaitOps
            /\ ~f.flagAtEntry
            /\ f.timeout >= 1
            /\ f.firstTerminal.State = "SUCCEEDED"
            /\ k <= f.timeout
            /\ f.pc # "classify")
           => /\ WaitSucceeded(f)
              /\ f.nStatus = k
              /\ f.nSleep = k - 1
              /\ handles[f.h].waited

\* C1 witness: SUCCEEDED arrives on the very last poll (k = timeout >= 2)
C1_Witness ==
    \E t \in Threads :
        LET f == frame[t]
        IN /\ f.op = "wait" /\ f.pc = "idle" /\ f.res = "return"
           /\ f.timeout >= 2 /\ f.lead + 1 = f.timeout
           /\ f.firstTerminal.State = "SUCCEEDED"
           /\ f.nStatus = f.timeout /\ f.nSleep = f.timeout - 1
           /\ handles[f.h].waited

\* C2: when each of the first `timeout` status calls (timeout >= 1) of one
\* wait call returns a state other than SUCCEEDED, FAILED and CANCELLED,
\* wait raises the timed-out error naming the execution id and the timeout,
\* after exactly `timeout` status calls and `timeout - 1` sleeps, and the
\* waited flag stays false.
C2_TimedOut ==
    \A t \in Threads :
        LET f == frame[t]
        IN /\ (/\ f.op \in WaitOps
                /\ ~f.flagAtEntry
                /\ f.timeout >= 1
                /\ f.lead >= f.timeout
                /\ f.pc # "classify")
               => /\ f.nStatus = f.timeout
                  /\ f.nSleep = f.timeout - 1
                  /\ f.firstTerminal = NoStatus
                  /\ ~handles[f.h].waited
                  /\ \/ f.pc = "loop" /\ f.i = f.timeout
                     \/ Raised(f, TimedOutText(f))
           /\ (f.op \in WaitOps /\ f.timeout >= 1 /\ Raised(f, TimedOutText(f)))
               => f.lead = f.timeout /\ f.nStatus = f.timeout

\* C2 witness: a wait with timeout >= 2 has raised the timed-out error
C2_Witness ==
    \E t \in Threads :
        LET f == frame[t]
        IN /\ f.op = "wait" /\ f.timeout >= 2 /\ f.lead = f.timeout
           /\ f.pc = "idle" /\ f.res = "raise"
           /\ f.exc = TimeoutMessage(handles[f.h].query_execution_id, f.timeout)
           /\ f.nSleep = f.timeout - 1

\* C3: wait on a handle whose waited flag is already set makes no status
\* call and no sleep and returns success, whatever the timeout.
C3_WaitedShortCircuit ==
    \A t \in Threads :
        LET f == frame[t]
        IN (f.op \in WaitOps /\ f.flagAtEntry)
           => /\ WaitSucceeded(f)
              /\ f.nStatus = 0
              /\ f.nSleep = 0
              /\ f.status = NoStatus

\* C3 witness: a wait(timeout <= 0) call on a waited handle has returned
C3_Witness ==
    \E t \in Threads :
        LET f == frame[t]
        IN /\ f.op = "wait" /\ f.flagAtEntry /\ f.timeout <= 0
           /\ f.pc = "idle" /\ f.res = "return" /\ f.nStatus = 0

\* C4: over every sequence of wait and get_result calls on a handle, with
\* any timeouts and any service answers (FAILED or CANCELLED answers after
\* the flag was set included), once waited is true it is true ever after.
C4_WaitedIsStable ==
    [][\A n \in 1..Len(handles) :
          handles[n].waited => (n <= Len(handles') /\ handles'[n].waited)]_vars

\* C4 witness: a wait call has raised on a FAILED or CANCELLED answer that
\* arrived after the handle's flag was set, and the flag is still set
C4_Witness ==
    \E t \in Threads :
        LET f == frame[t]
        IN /\ f.op \in {"wait", "get_result"} /\ f.pc = "idle" /\ f.res = "raise"
           /\ f.status.State \in {"FAILED", "CANCELLED"}
           /\ handles[f.h].waited

\* C5: when a status call inside wait returns FAILED, wait raises at once
\* the failed error carrying the execution id and the service's exact
\* reason, or the placeholder reason when the field is absent; that wait
\* call makes no further status call or sleep and does not set waited.
C5_FailedRaises ==
    \A t \in Threads :
        LET f == frame[t]
        IN (f.op \in WaitOps /\ f.firstTerminal.State = "FAILED" /\ f.pc # "classify")
           => /\ Raised(f, FailedText(f, f.firstTerminal))
              /\ f.status = f.firstTerminal
              /\ f.nStatus = f.lead + 1
              /\ f.nSleep = f.lead
              /\ ~handles[f.h].waited

\* C5 witness: FAILED without a reason, after one in-progress poll, raised
\* with the placeholder reason
C5_Witness ==
    \E t \in Threads :
        LET f == frame[t]
        IN /\ f.op = "wait" /\ f.firstTerminal = [State |-> "FAILED"] /\ f.lead >= 1
           /\ f.pc = "idle" /\ f.res = "raise"
           /\ f.exc = "Athena execution " \o handles[f.h].query_execution_id
                          \o " is failed. No reason is given."

\* C6: when a status call inside wait returns CANCELLED, wait raises the
\* canceled error carrying the execution id and the reason; it is never the
\* error raised for FAILED with the same id and reason; waited is not set.
C6_CanceledRaises ==
    \A t \in Threads :
        LET f == frame[t]
        IN (f.op \in WaitOps /\ f.firstTerminal.State = "CANCELLED" /\ f.pc # "classify")
           => /\ Raised(f, CanceledText(f, f.firstTerminal))
              /\ f.exc # FailedText(f, f.firstTerminal)
              /\ f.nStatus = f.lead + 1
              /\ ~handles[f.h].waited

\* C6 witness: CANCELLED with a reason has raised the canceled error
C6_Witness ==
    \E t \in Threads :
        LET f == frame[t]
        IN /\ f.op = "wait" /\ f.pc = "idle" /\ f.res = "raise"
           /\ f.firstTerminal = [State |-> "CANCELLED", StateChangeReason |-> "User cancelled"]
           /\ f.exc = "Athena execution " \o handles[f.h].query_execution_id
                          \o " is canceled. User cancelled"

\* C7: get_result waits first and only after wait returned success issues
\* exactly one get_query_results call for the handle's execution id, whose
\* response it returns unchanged; when wait raises, the error propagates and
\* no get_query_results call is made; results are only ever requested for a
\* handle whose waited flag is true.
C7_GetResultAfterWait ==
    \A t \in Threads :
        LET f == frame[t]
        IN /\ f.nResults >= 1 => handles[f.h].waited
           /\ f.op = "get_result" =>
                /\ f.nResults <= 1
                /\ f.pc = "fetch" => handles[f.h].waited /\ f.nResults = 0
                /\ f.nResults = 1 =>
                      /\ f.pc = "idle" /\ f.res = "return"
                      /\ f.flagAtEntry \/ f.status.State = "SUCCEEDED"
                      /\ f.fetchId = handles[f.h].query_execution_id
                      /\ f.retR = f.resp /\ f.resp \in Responses
                /\ (f.pc = "idle" /\ f.res = "return") => f.nResults = 1
                /\ f.res = "raise" =>
                      /\ f.nResults = 0 /\ f.pc = "idle"
                      /\ f.exc \in {FailedText(f, f.status), CanceledText(f, f.status), TimedOutText(f)}

\* C7 witness: a get_result that had to poll has fetched and returned
C7_Witness ==
    \E t \in Threads :
        LET f == frame[t]
        IN /\ f.op = "get_result" /\ f.pc = "idle" /\ f.res = "return"
           /\ f.nStatus >= 2 /\ f.nResults = 1 /\ f.retR \in Responses

\* C8: every execute call issues exactly one start_query_execution call with
\* the query string verbatim and the client's database name and output
\* location (the same pair for every execution of the client), and returns
\* a new handle holding the id the service returned, with waited = false.
C8_ExecuteSubmitsOnce ==
    /\ issued \subseteq {[Database |-> client.db_name, OutputLocation |-> client.output_location]}
    /\ \A t \in Threads :
        LET f == frame[t]
        IN /\ f.nStart <= 1
           /\ f.nStart = 1 =>
                /\ f.sent = [QueryString |-> f.query, Database |-> client.db_name,
                             OutputLocation |-> client.output_location]
                /\ f.h \in 1..Len(handles)
                /\ handles[f.h].query_execution_id = f.gotId
                /\ issued # {}
           /\ (f.op \in {"execute", "add_partition"} /\ f.res = "return") =>
                /\ f.nStart = 1 /\ f.pc = "idle"
                /\ f.retH = f.h /\ f.retH = Len(handles)
                /\ ~handles[f.retH].waited
           /\ (f.op = "execute_sync" /\ f.pc = "wait") => ~handles[f.h].waited

\* C8 witness: a second execute call on the client has returned its handle
C8_Witness ==
    \E t \in Threads :
        LET f == frame[t]
        IN /\ f.op = "execute" /\ f.res = "return" /\ f.retH = 2
           /\ f.sent.QueryString = "slect" /\ f.sent.OutputLocation = client.output_location
           /\ handles[2].query_execution_id = f.gotId /\ ~handles[2].waited

\* C9: execute_sync submits the query exactly once (a FAILED, CANCELLED or
\* timed-out execution is never resubmitted) and then waits on the handle:
\* it returns normally only if a status call returned SUCCEEDED, and a wait
\* error reaches the caller unchanged.
C9_ExecuteSyncNoRetry ==
    \A t \in Threads :
        LET f == frame[t]
        IN f.op = "execute_sync" =>
             /\ f.nStart <= 1
             /\ f.pc # "start" => f.nStart = 1 /\ f.sent.QueryString = f.query
             /\ f.res = "return" => f.nStatus >= 1 /\ f.status.State = "SUCCEEDED" /\ f.pc = "idle"
             /\ f.res = "raise" =>
                  /\ f.pc = "idle"
                  /\ \/ f.status.State = "FAILED" /\ f.exc = FailedText(f, f.status)
                     \/ f.status.State = "CANCELLED" /\ f.exc = CanceledText(f, f.status)
                     \/ f.status.State \notin TerminalStates /\ f.exc = TimedOutText(f)

\* C9 witness: an execute_sync whose execution FAILED has raised after one
\* submission
C9_Witness ==
    \E t \in Threads :
        LET f == frame[t]
        IN /\ f.op = "execute_sync" /\ f.pc = "idle" /\ f.res = "raise"
           /\ f.status.State = "FAILED" /\ f.nStart = 1 /\ f.nStatus >= 2

\* C10: add_partition submits its statement through execute and returns the
\* handle without waiting: one start_query_execution call, no
\* get_query_execution call, no sleep, and the handle has waited = false.
C10_AddPartitionDoesNotWait ==
    \A t \in Threads :
        LET f == frame[t]
        IN f.op = "add_partition" =>
             /\ f.nStatus = 0 /\ f.nSleep = 0 /\ f.nResults = 0
             /\ f.res # "raise"
             /\ f.pc \in {"start", "idle"}
             /\ f.pc = "idle" =>
                  /\ f.res = "return" /\ f.nStart = 1
                  /\ f.sent.QueryString = f.query
                  /\ f.retH \in 1..Len(handles)
                  /\ ~handles[f.retH].waited

\* C10 witness: an add_partition call has returned its handle
C10_Witness ==
    \E t \in Threads :
        LET f == frame[t]
        IN /\ f.op = "add_partition" /\ f.pc = "idle" /\ f.res = "return"
           /\ f.nStart = 1 /\ f.nStatus = 0 /\ ~handles[f.retH].waited

\* what Python prints for the dates of Dates
IsoText(d) == CASE d = [year |-> 2024, month |-> 1, day |-> 1] -> "2024-01-01"
                [] d = [year |-> 987, month |-> 12, day |-> 25] -> "0987-12-25"

\* C11: the statement add_partition builds renders every partition pair as
\* key="value", joined by ", ", in the mapping's order (created_at before
\* type), and its location is the client's bucket, "/" and the directory.
C11_PartitionStatement ==
    \A t \in Threads :
        LET f == frame[t]
        IN f.op = "add_partition" =>
             /\ f.query = "alter table athena_table_name add partition (created_at=\""
                            \o IsoText(f.created_at) \o "\", type=\"" \o f.type
                            \o "\") location \"" \o client.s3_bucket \o "/" \o f.directory \o "\";"
             /\ f.nStart = 1 => f.sent.QueryString = f.query

\* C11 witness: the statement of the spec's example has been submitted
C11_Witness ==
    \E t \in Threads :
        LET f == frame[t]
        IN /\ f.op = "add_partition" /\ f.res = "return" /\ client.s3_bucket = "s3://data1"
           /\ f.sent.QueryString = "alter table athena_table_name add partition (created_at=\"2024-01-01\", type=\"daily\") location \"s3://data1/2024/01/01\";"

\* the rows of the response f's operation fetched
FetchedRows(f) == f.resp.ResultSet.Rows

\* the response has a header row and every cell carries a string
WellFormed(rows) == /\ Len(rows) >= 1
                    /\ \A r \in 1..Len(rows) : \A c \in 1..Len(rows[r].Data) :
                          DOMAIN rows[r].Data[c] = {"VarCharValue"}

\* f's operation ended with the error its wait raised, before any fetch
WaitErrorSurfaced(f) ==
    /\ f.pc = "idle" /\ f.res = "raise" /\ f.excType = "Exception" /\ f.nResults = 0
    /\ \/ f.status.State = "FAILED" /\ f.exc = FailedText(f, f.status)
       \/ f.status.State = "CANCELLED" /\ f.exc = CanceledText(f, f.status)
       \/ f.status.State \notin TerminalStates /\ f.exc = TimedOutText(f)

\* C12: _execute_select returns the string values of the first result row
\* as the column names and those of all remaining rows, in order, as the
\* data rows (none for a header-only result); when the execution does not
\* succeed it fails with the wait error and returns nothing.
C12_ExecuteSelectSplitsHeader ==
    \A t \in Threads :
        LET f == frame[t]
            rows == FetchedRows(f)
        IN (f.op = "_execute_select" /\ f.pc = "idle") =>
             /\ (f.nResults = 1 /\ WellFormed(rows)) =>
                  /\ f.res = "return"
                  /\ Len(f.retCols) = Len(rows[1].Data)
                  /\ \A c \in 1..Len(f.retCols) : f.retCols[c] = rows[1].Data[c].VarCharValue
                  /\ Len(f.retRows) = Len(rows) - 1
                  /\ \A r \in 1..Len(f.retRows) :
                        /\ Len(f.retRows[r]) = Len(rows[r + 1].Data)
                        /\ \A c \in 1..Len(f.retRows[r]) : f.retRows[r][c] = rows[r + 1].Data[c].VarCharValue
             /\ f.res = "return" => f.nResults = 1 /\ f.status.State = "SUCCEEDED"
             /\ f.status.State # "SUCCEEDED" =>
                  WaitErrorSurfaced(f) /\ f.retCols = << >> /\ f.retRows = << >>

\* C12 witness: a two-data-row result has been split
C12_Witness ==
    \E t \in Threads :
        LET f == frame[t]
        IN /\ f.op = "_execute_select" /\ f.pc = "idle" /\ f.res = "return"
           /\ f.retCols = <<"a", "b">> /\ f.retRows = << <<"1", "x">>, <<"2", "y">> >>

\* a header-only result has given no data rows
C12_HeaderOnlyReached ==
    \E t \in Threads :
        LET f == frame[t]
        IN /\ f.op = "_execute_select" /\ f.res = "return"
           /\ Len(FetchedRows(f)) = 1 /\ f.retCols = <<"a", "b">> /\ f.retRows = << >>

\* C13: get_some returns one mapping per data row, in row order, each
\* pairing the i-th header name with the i-th cell of that row; a
\* header-only result gives an empty sequence.
C13_GetSomeZipsRows ==
    \A t \in Threads :
        LET f == frame[t]
            rows == FetchedRows(f)
        IN (f.op = "get_some" /\ f.pc = "idle" /\ f.nResults = 1 /\ WellFormed(rows)) =>
             /\ f.res = "return"
             /\ Len(f.retMaps) = Len(rows) - 1
             /\ \A n \in 1..Len(f.retMaps) :
                   /\ DOMAIN f.retMaps[n] = {rows[1].Data[i].VarCharValue : i \in 1..Len(rows[1].Data)}
                   /\ \A i \in 1..Len(rows[1].Data) :
                         f.retMaps[n][rows[1].Data[i].VarCharValue] = rows[n + 1].Data[i].VarCharValue

\* C13 witness: the spec's example, header [a, b] with rows [1, x], [2, y]
C13_Witness ==
    \E t \in Threads :
        LET f == frame[t]
        IN /\ f.op = "get_some" /\ f.pc = "idle" /\ f.res = "return"
           /\ Len(f.retMaps) = 2
           /\ f.retMaps[1]["a"] = "1" /\ f.retMaps[1]["b"] = "x"
           /\ f.retMaps[2]["a"] = "2" /\ f.retMaps[2]["b"] = "y"

\* what Python's int gives for the cells of CountCells; -1000 stands for ValueError
IntOracle(c) == CASE c = "42" -> 42 [] c = "0" -> 0 [] c = "-3" -> 0 - 3 [] c = " 7" -> 7 [] c = "1_0" -> 10
                  [] OTHER -> 0 - 1000

\* C14: get_count returns the integer value of the single data cell of the
\* count result (header [cnt], row [42] gives 42), fails with a parsing
\* error when the cell is not integer-parseable, and fails with the wait
\* error when the execution does not succeed.
C14_GetCountParses ==
    \A t \in Threads :
        LET f == frame[t]
            rows == FetchedRows(f)
        IN (f.op = "get_count" /\ f.pc = "idle") =>
             /\ (f.nResults = 1 /\ WellFormed(rows) /\ Len(rows) = 2 /\ Len(rows[2].Data) = 1) =>
                  LET cell == rows[2].Data[1].VarCharValue
                  IN IF IntOracle(cell) # 0 - 1000
                     THEN f.res = "return" /\ f.retInt = IntOracle(cell)
                     ELSE f.res = "raise" /\ f.excType = "ValueError"
             /\ f.res = "return" => f.nResults = 1 /\ f.status.State = "SUCCEEDED"
             /\ f.status.State # "SUCCEEDED" => WaitErrorSurfaced(f)

\* C14 witness: header [cnt] and data row [42] have given 42
C14_Witness ==
    \E t \in Threads :
        LET f == frame[t]
        IN /\ f.op = "get_count" /\ f.pc = "idle" /\ f.res = "return" /\ f.retInt = 42
           /\ FetchedRows(f) = << [Data |-> <<[VarCharValue |-> "cnt"]>>], [Data |-> <<[VarCharValue |-> "42"]>>] >>

\* a cell that is not an integer has raised ValueError
C14_ParseErrorReached ==
    \E t \in Threads :
        LET f == frame[t]
        IN /\ f.op = "get_count" /\ f.res = "raise" /\ f.excType = "ValueError"
           /\ f.exc = "invalid literal for int() with base 10: 'abc'"

\* C15: a FAILED, CANCELLED or timed-out outcome is not memoized: the next
\* wait call on that handle polls again (at least one status call when
\* timeout >= 1) and its outcome is decided by the newly returned states
\* alone: another reason, another error kind, or success, which sets the flag.
C15_FailureNotMemoized ==
    \A t \in Threads :
        LET f == frame[t]
        IN (f.retry /\ f.pc = "idle" /\ f.timeout >= 1) =>
             /\ ~f.flagAtEntry
             /\ f.nStatus >= 1
             /\ f.status.State = "SUCCEEDED" => f.res = "return" /\ handles[f.h].waited
             /\ f.status.State = "FAILED" => Raised(f, FailedText(f, f.status)) /\ ~handles[f.h].waited
             /\ f.status.State = "CANCELLED" => Raised(f, CanceledText(f, f.status)) /\ ~handles[f.h].waited
             /\ f.status.State \notin TerminalStates =>
                   Raised(f, TimedOutText(f)) /\ f.nStatus = f.timeout /\ ~handles[f.h].waited

\* C15 witness: the wait after a FAILED wait has polled and succeeded
C15_Witness ==
    \E t \in Threads :
        LET f == frame[t]
        IN /\ f.retry /\ f.pc = "idle" /\ f.res = "return" /\ f.nStatus >= 2
           /\ f.prevExc = "Athena execution " \o handles[f.h].query_execution_id \o " is failed. SYNTAX_ERROR"
           /\ handles[f.h].waited

\* the wait after a FAILED wait has raised another kind of error with another reason
C15_OtherErrorReached ==
    \E t \in Threads :
        LET f == frame[t]
        IN /\ f.retry /\ f.pc = "idle" /\ f.res = "raise"
           /\ f.prevExc = "Athena execution " \o handles[f.h].query_execution_id \o " is failed. SYNTAX_ERROR"
           /\ f.exc = "Athena execution " \o handles[f.h].query_execution_id \o " is canceled. User cancelled"

Max0(n) == IF n < 0 THEN 0 ELSE n

\* the counts of one wait call at each point of its loop
C16_Bounds ==
    \A t \in Threads :
        LET f == frame[t]
        IN f.op \in WaitOps =>
             /\ f.nStatus <= Max0(f.timeout)
             /\ f.nSleep <= Max0(f.timeout - 1)
             /\ f.pc \in {"classify", "sleep"} => f.nStatus = f.i + 1
             /\ f.pc = "loop" => f.nStatus = f.i
             /\ f.nSleep \in {f.nStatus - 1, f.nStatus}
             /\ f.firstTerminal # NoStatus =>
                   /\ f.nStatus = f.lead + 1
                   /\ f.status = f.firstTerminal
                   /\ f.pc \in {"classify", "idle", "fetch"}

\* C16: for every timeout and every sequence of service answers, one wait
\* call ends (with success or an error) after at most `timeout` status
\* calls and `timeout - 1` sleeps, provided each status call returns; it
\* makes one status call per loop iteration and stops polling at the first
\* SUCCEEDED, FAILED or CANCELLED answer.
C16_WaitTerminates ==
    /\ []C16_Bounds
    /\ \A t \in SeqCallers :
          (frame[t].pc \in {"wait", "loop", "classify", "sleep"}) ~> (frame[t].pc = "idle")

\* C16 witness: a wait with the default timeout has used up all its polls
C16_Witness ==
    \E t \in Threads :
        LET f == frame[t]
        IN /\ f.op = "wait" /\ f.pc = "idle" /\ f.res = "raise" /\ f.timeout = DefaultTimeout
           /\ f.nStatus = DefaultTimeout /\ f.nSleep = DefaultTimeout - 1

\* a finished wait call that entered its loop ended as its own answers say
OwnOutcome(f) ==
    /\ f.status.State = "SUCCEEDED" => WaitSucceeded(f)
    /\ f.status.State = "FAILED" => Raised(f, FailedText(f, f.status))
    /\ f.status.State = "CANCELLED" => Raised(f, CanceledText(f, f.status))
    /\ f.status.State \notin TerminalStates => Raised(f, TimedOutText(f)) /\ f.nStatus = Max0(f.timeout)

C17_State ==
    /\ \A n \in 1..Len(handles) : handles[n].waited => handles[n].query_execution_id \in succeeded
    /\ \A t \in Threads :
          LET f == frame[t]
          IN f.op \in WaitOps =>
               /\ f.nStatus <= Max0(f.timeout)
               /\ (f.pc \in {"idle", "fetch"} /\ ~f.flagAtEntry) => OwnOutcome(f)
               /\ (f.pc \in {"idle", "fetch"} /\ f.flagAtEntry) => WaitSucceeded(f) /\ f.nStatus = 0

C17_Step ==
    \A n \in 1..Len(handles) :
        /\ n <= Len(handles')
        /\ handles'[n].query_execution_id = handles[n].query_execution_id
        /\ handles[n].waited => handles'[n].waited
        /\ (~handles[n].waited /\ handles'[n].waited) =>
              \E t \in Threads : /\ frame[t].pc = "classify" /\ frame[t].h = n
                                 /\ frame[t].status.State = "SUCCEEDED"
                                 /\ frame'[t].pc # "classify"

\* C17: when two callers run wait concurrently on one handle, under every
\* interleaving the flag is only ever written to true, only after a
\* SUCCEEDED answer, and never goes back; the execution id is unchanged;
\* each caller makes at most its own `timeout` status calls; and each
\* caller's outcome is the one its own status answers determine.
C17_ConcurrentWaitBenign ==
    []C17_State /\ [][C17_Step]_vars

\* C17 witness: both callers polled the same handle; one got SUCCEEDED and
\* set the flag, the other got FAILED and raised
C17_Witness ==
    /\ frame[1].op = "wait" /\ frame[2].op = "wait"
    /\ frame[1].pc = "idle" /\ frame[2].pc = "idle"
    /\ ~frame[1].flagAtEntry /\ ~frame[2].flagAtEntry
    /\ frame[1].res = "return" /\ frame[1].nStatus = 2
    /\ frame[2].res = "raise" /\ frame[2].status.State = "FAILED" /\ frame[2].nStatus = 2
    /\ handles[1].waited

C18_State ==
    \A n \in 1..Len(handles) : handles[n].waited => handles[n].query_execution_id \in succeeded

C18_Step ==
    /\ Len(handles') >= Len(handles)
    /\ \A n \in (Len(handles) + 1)..Len(handles') : ~handles'[n].waited
    /\ \A n \in 1..Len(handles) :
          /\ handles'[n].query_execution_id = handles[n].query_execution_id
          /\ (~handles[n].waited /\ handles'[n].waited) =>
                \E t \in Threads : /\ frame[t].pc = "classify" /\ frame[t].h = n
                                   /\ frame[t].status.State = "SUCCEEDED"
                                   /\ frame[t].askedId = handles[n].query_execution_id
                                   /\ frame'[t].nStatus = frame[t].nStatus

\* C18: a handle's waited flag is true only if an earlier
\* get_query_execution call for its own execution id returned SUCCEEDED; no
\* other operation (construction, execute, add_partition, get_query_results,
\* a wait that failed or timed out, a wait on another handle) sets it, and
\* a handle's execution id never changes.
C18_WaitedOnlyAfterSucceeded ==
    []C18_State /\ [][C18_Step]_vars

\* C18 witness: of two handles with different ids one is waited; the wait
\* on the other has failed and left it unwaited
C18_Witness ==
    /\ Len(handles) = 2
    /\ handles[1].waited /\ ~handles[2].waited
    /\ handles[1].query_execution_id # handles[2].query_execution_id
    /\ succeeded = {handles[1].query_execution_id}
    /\ \E t \in Threads : /\ frame[t].op = "wait" /\ frame[t].h = 2
                          /\ frame[t].res = "raise" /\ frame[t].nStatus >= 1

\* C19: wait(timeout) with timeout <= 0 on a handle whose flag is not set
\* makes no status call and no sleep and fails at once with the timed-out
\* error, even when the execution has SUCCEEDED on the service; the flag
\* stays false.
C19_NonPositiveTimeout ==
    \A t \in Threads :
        LET f == frame[t]
        IN (f.op \in WaitOps /\ f.timeout <= 0 /\ f.pc \notin {"start", "wait"} /\ ~f.flagAtEntry) =>
             /\ f.nStatus = 0 /\ f.nSleep = 0
             /\ f.status = NoStatus
             /\ ~handles[f.h].waited
             /\ \/ f.pc = "loop" /\ f.i = 0
                \/ Raised(f, TimedOutText(f))

\* C19 witness: wait(-1) has raised for an execution id the service has
\* already reported SUCCEEDED
C19_Witness ==
    \E t \in Threads :
        LET f == frame[t]
        IN /\ f.op = "wait" /\ f.timeout < 0 /\ f.pc = "idle" /\ f.res = "raise"
           /\ f.exc = "Athena execution " \o handles[f.h].query_execution_id \o " is not processed in -1 seconds."
           /\ handles[f.h].query_execution_id \in succeeded
           /\ ~handles[f.h].waited /\ f.nStatus = 0
====
